---- MODULE Spec2Model ----
(***************************************************************************)
(* Streaming multipart/form-data decoder of views/utils.py (FileStream,    *)
(* File) together with the consumers that drive it.  Bytes are modelled    *)
(* as one-character strings, byte strings as sequences of them.            *)
(***************************************************************************)
EXTENDS Integers, Sequences, FiniteSets, TLC

(* ------------------------------ bounds --------------------------------- *)
MaxParts == 2
MaxChunk == 4
MaxOps == 5

(* ------------------------- evaluation helpers ------------------------- *)
\* a local variable: e is evaluated once and F applied to its value
Let(e, F(_)) == CHOOSE r \in {F(x) : x \in {e}} : TRUE
Let2(e1, e2, F(_, _)) == CHOOSE r \in {F(x, y) : x \in {e1}, y \in {e2}} : TRUE
Let3(e1, e2, e3, F(_, _, _)) ==
    CHOOSE r \in {F(x, y, z) : x \in {e1}, y \in {e2}, z \in {e3}} : TRUE

(* ------------------------- Python bytes helpers ------------------------ *)
Min(a, b) == IF a < b THEN a ELSE b
Max(a, b) == IF a > b THEN a ELSE b

\* s[:n] for n >= 0
PyTo(s, n) == SubSeq(s, 1, Min(n, Len(s)))
\* s[n:] for n >= 0
PyFrom(s, n) == SubSeq(s, n + 1, Len(s))
\* s[:-n] for n > 0
PyDropLast(s, n) == SubSeq(s, 1, Len(s) - n)
\* s[-n:] for n > 0
PyLast(s, n) == SubSeq(s, Max(Len(s) - n, 0) + 1, Len(s))

\* does pat occur in s at 0-based offset i
MatchAt(s, pat, i) ==
    /\ i >= 0
    /\ i + Len(pat) <= Len(s)
    /\ \A j \in 1..Len(pat) : s[i + j] = pat[j]

\* bytes.find(pat, from): lowest 0-based offset >= from, or -1
FindFrom(s0, pat0, from) ==
    Let2(s0, pat0, LAMBDA s, pat :
        Let({i \in from..(Len(s) - Len(pat)) : s[i + 1] = pat[1] /\ MatchAt(s, pat, i)},
            LAMBDA hits : IF hits = {} THEN -1
                          ELSE CHOOSE i \in hits : \A j \in hits : i <= j))

Find(s, pat) == FindFrom(s, pat, 0)

\* pat in s
Contains(s, pat) == Find(s, pat) # -1

IsPrefix(p, s) == Len(p) <= Len(s) /\ SubSeq(s, 1, Len(p)) = p

(* ------------------------------ literals ------------------------------- *)
None == <<"None">>
CRLF == <<"\r", "\n">>
CRLFCRLF == <<"\r", "\n", "\r", "\n">>
DASHDASH == <<"-", "-">>
DISPOSITION == <<"C", "o", "n", "t", "e", "n", "t", "-", "D", "i", "s", "p", "o", "s", "i", "t", "i", "o", "n", ":", " ", "f", "o", "r", "m", "-", "d", "a", "t", "a", ";">>
NAME_EQ == <<" ", "n", "a", "m", "e", "=", "\"">>
FILENAME == <<";", " ", "f", "i", "l", "e", "n", "a", "m", "e">>
CONTENT_TYPE == <<"C", "o", "n", "t", "e", "n", "t", "-", "T", "y", "p", "e", ":", " ">>
MULTIPART == <<"m", "u", "l", "t", "i", "p", "a", "r", "t", "/", "f", "o", "r", "m", "-", "d", "a", "t", "a">>
OCTET == <<"a", "p", "p", "l", "i", "c", "a", "t", "i", "o", "n", "/", "o", "c", "t", "e", "t", "-", "s", "t", "r", "e", "a", "m">>
BOUNDARY_KEY == <<"b", "o", "u", "n", "d", "a", "r", "y">>
UTF8 == <<"U", "T", "F", "-", "8">>

Digits == {"0", "1", "2", "3", "4", "5", "6", "7", "8", "9"}
LowerLetters == {"a", "b", "c", "d", "e", "f", "g", "h", "i", "j", "k", "l", "m",
                 "n", "o", "p", "q", "r", "s", "t", "u", "v", "w", "x", "y", "z"}
UpperToLower == [c \in {"A", "B", "C", "D", "E", "F", "G", "H", "I", "J", "K", "L", "M",
                        "N", "O", "P", "Q", "R", "S", "T", "U", "V", "W", "X", "Y", "Z"} |->
    CASE c = "A" -> "a" [] c = "B" -> "b" [] c = "C" -> "c" [] c = "D" -> "d"
      [] c = "E" -> "e" [] c = "F" -> "f" [] c = "G" -> "g" [] c = "H" -> "h"
      [] c = "I" -> "i" [] c = "J" -> "j" [] c = "K" -> "k" [] c = "L" -> "l"
      [] c = "M" -> "m" [] c = "N" -> "n" [] c = "O" -> "o" [] c = "P" -> "p"
      [] c = "Q" -> "q" [] c = "R" -> "r" [] c = "S" -> "s" [] c = "T" -> "t"
      [] c = "U" -> "u" [] c = "V" -> "v" [] c = "W" -> "w" [] c = "X" -> "x"
      [] c = "Y" -> "y" [] c = "Z" -> "z"]
\* \w of a bytes pattern: [a-zA-Z0-9_]
WordChars == Digits \cup LowerLetters \cup DOMAIN UpperToLower \cup {"_"}

\* str.lower() on ASCII text
lower(s0) ==
    Let(s0, LAMBDA s :
        [i \in 1..Len(s) |-> IF s[i] \in DOMAIN UpperToLower THEN UpperToLower[s[i]] ELSE s[i]])

\* printable ASCII codes 32..95 and 97..126
AsciiLow == <<" ", "!", "\"", "#", "$", "%", "&", "'", "(", ")", "*", "+", ",", "-", ".", "/",
           "0", "1", "2", "3", "4", "5", "6", "7", "8", "9", ":", ";", "<", "=", ">", "?",
           "@", "A", "B", "C", "D", "E", "F", "G", "H", "I", "J", "K", "L", "M", "N", "O",
           "P", "Q", "R", "S", "T", "U", "V", "W", "X", "Y", "Z", "[", "\\", "]", "^", "_">>
AsciiHigh == <<"a", "b", "c", "d", "e", "f", "g", "h", "i", "j", "k", "l", "m", "n", "o",
           "p", "q", "r", "s", "t", "u", "v", "w", "x", "y", "z", "{", "|", "}", "~">>

\* chr(): a str character; code points outside printable ASCII are written U+<decimal>
chr(n) ==
    IF n = 13 THEN "\r"
    ELSE IF n = 10 THEN "\n"
    ELSE IF n = 9 THEN "\t"
    ELSE IF n >= 32 /\ n <= 95 THEN AsciiLow[n - 31]
    ELSE IF n >= 97 /\ n <= 126 THEN AsciiHigh[n - 96]
    ELSE "U+" \o ToString(n)

\* ord() of an ASCII character
ord(c) ==
    IF c = "\r" THEN 13
    ELSE IF c = "\n" THEN 10
    ELSE IF c = "\t" THEN 9
    ELSE CHOOSE n \in 32..126 : chr(n) = c

(* ------------------- cgi.parse_header (Content-Type) ------------------- *)
Whitespace == {" ", "\t", "\r", "\n"}

RECURSIVE lstrip(_)
lstrip(s0) ==
    Let(s0, LAMBDA s : IF s # <<>> /\ Head(s) \in Whitespace THEN lstrip(Tail(s)) ELSE s)

RECURSIVE rstrip(_)
rstrip(s0) ==
    Let(s0, LAMBDA s : IF s # <<>> /\ s[Len(s)] \in Whitespace
                       THEN rstrip(SubSeq(s, 1, Len(s) - 1)) ELSE s)

strip(s) == rstrip(lstrip(s))

\* cgi._parseparam: the ';'-separated fields of ';' + line, stripped
\* (header values with a ';' inside a quoted string are not in the input set)
RECURSIVE parseparam(_)
parseparam(s0) ==
    Let(s0, LAMBDA s :
        IF PyTo(s, 1) # <<";">> THEN <<>>
        ELSE Let(PyFrom(s, 1), LAMBDA s1 :
             Let(Find(s1, <<";">>), LAMBDA e0 :
                 LET end == IF e0 < 0 THEN Len(s1) ELSE e0
                 IN  <<strip(PyTo(s1, end))>> \o parseparam(PyFrom(s1, end)))))

\* one "name=value" field of cgi.parse_header; <<>> when the field has no '='
parse_param(p0) ==
    Let(p0, LAMBDA p :
    Let(Find(p, <<"=">>), LAMBDA i :
        IF i < 0 THEN <<>>
        ELSE Let(strip(PyFrom(p, i + 1)), LAMBDA value :
                 <<[name |-> lower(strip(PyTo(p, i))),
                    value |-> IF Len(value) >= 2 /\ value[1] = "\"" /\ value[Len(value)] = "\""
                              THEN SubSeq(value, 2, Len(value) - 1)
                              ELSE value]>>)))

RECURSIVE parse_params(_)
parse_params(fields0) ==
    Let(fields0, LAMBDA fields :
        IF fields = <<>> THEN <<>>
        ELSE parse_param(Head(fields)) \o parse_params(Tail(fields)))

\* cgi.parse_header(line): the main value and the parameters in header order
parse_header(line) ==
    Let(parseparam(<<";">> \o line), LAMBDA fields :
        [key |-> Head(fields), params |-> parse_params(Tail(fields))])

\* dict lookup parameters[key]: the last field of that name wins; None is KeyError
param_get(params0, key) ==
    Let(params0, LAMBDA params :
    Let({i \in 1..Len(params) : params[i].name = key}, LAMBDA hits :
        IF hits = {} THEN None
        ELSE params[CHOOSE i \in hits : \A j \in hits : j <= i].value))

(* ---------------------- urllib.parse.unquote, UTF-8 -------------------- *)
HexDigits == Digits \cup {"a", "b", "c", "d", "e", "f", "A", "B", "C", "D", "E", "F"}

HexVal(c) ==
    IF c \in Digits THEN ord(c) - 48
    ELSE IF c \in {"a", "b", "c", "d", "e", "f"} THEN ord(c) - 87
    ELSE ord(c) - 55

\* urllib.parse.unquote_to_bytes on ASCII text: byte values
RECURSIVE unquote_to_bytes(_)
unquote_to_bytes(s0) ==
    Let(s0, LAMBDA s :
        IF s = <<>> THEN <<>>
        ELSE IF s[1] = "%" /\ Len(s) >= 3 /\ s[2] \in HexDigits /\ s[3] \in HexDigits
             THEN <<16 * HexVal(s[2]) + HexVal(s[3])>> \o unquote_to_bytes(PyFrom(s, 3))
             ELSE <<ord(s[1])>> \o unquote_to_bytes(Tail(s)))

IsCont(bs, i) == i <= Len(bs) /\ bs[i] >= 128 /\ bs[i] <= 191

\* bytes.decode("utf-8", errors): code points; a malformed byte gives 65533
\* (errors = "replace") or the marker -1 (errors = "strict")
RECURSIVE utf8_decode(_, _)
utf8_decode(bs0, replace) ==
    Let(bs0, LAMBDA bs :
        IF bs = <<>> THEN <<>>
        ELSE LET b == bs[1]
             IN  IF b < 128 THEN <<b>> \o utf8_decode(PyFrom(bs, 1), replace)
                 ELSE IF b >= 194 /\ b <= 223 /\ IsCont(bs, 2)
                   THEN <<(b - 192) * 64 + (bs[2] - 128)>> \o utf8_decode(PyFrom(bs, 2), replace)
                 ELSE IF b >= 224 /\ b <= 239 /\ IsCont(bs, 2) /\ IsCont(bs, 3)
                   THEN <<(b - 224) * 4096 + (bs[2] - 128) * 64 + (bs[3] - 128)>>
                        \o utf8_decode(PyFrom(bs, 3), replace)
                 ELSE <<IF replace THEN 65533 ELSE -1>> \o utf8_decode(PyFrom(bs, 1), replace))

\* str.encode(): UTF-8 bytes of code points below 65536
RECURSIVE utf8_encode(_)
utf8_encode(cps0) ==
    Let(cps0, LAMBDA cps :
        IF cps = <<>> THEN <<>>
        ELSE LET c == cps[1]
             IN  (IF c < 128 THEN <<c>>
                  ELSE IF c < 2048 THEN <<192 + (c \div 64), 128 + (c % 64)>>
                  ELSE <<224 + (c \div 4096), 128 + ((c \div 64) % 64), 128 + (c % 64)>>)
                 \o utf8_encode(Tail(cps)))

\* a str from code points
to_str(cps0) == Let(cps0, LAMBDA cps : [i \in 1..Len(cps) |-> chr(cps[i])])

\* unquote(string) of ASCII text, as code points
unquote(s) == utf8_decode(unquote_to_bytes(s), TRUE)

\* bytes.decode() of ASCII bytes: a str
decode(bs0) ==
    Let(bs0, LAMBDA bs : to_str(utf8_decode([i \in 1..Len(bs) |-> ord(bs[i])], FALSE)))

(* --------------------------- File: the regexes ------------------------- *)
\* end offset of the longest run of \w starting at offset i
RECURSIVE WordRunEnd(_, _)
WordRunEnd(h, i0) ==
    Let(i0, LAMBDA i : IF i < Len(h) /\ h[i + 1] \in WordChars THEN WordRunEnd(h, i + 1) ELSE i)

\* [^;]*?" tried at offset p: the offset of the closing quote, or -1
RECURSIVE NameEnd(_, _)
NameEnd(h, p0) ==
    Let(p0, LAMBDA p :
        IF p >= Len(h) \/ h[p + 1] = ";" THEN -1
        ELSE IF h[p + 1] = "\"" THEN p
        ELSE NameEnd(h, p + 1))

\* (?:(?P<enc>.+?)'(?P<lang>\w*)')? tried with enc ending before offset q or
\* later: the offset of the quote that ends the shortest enc, or -1
RECURSIVE EncEnd(_, _)
EncEnd(h, q0) ==
    Let(q0, LAMBDA q :
        IF q >= Len(h) \/ h[q] = "\n" THEN -1
        ELSE IF h[q + 1] = "'" /\ MatchAt(h, <<"'">>, WordRunEnd(h, q + 1)) THEN q
        ELSE EncEnd(h, q + 1))

\* (?: name="(?P<name>[^;]*?)")? at offset p1: the group and where the match goes on
disposition_name(h, p1) ==
    LET n0 == p1 + Len(NAME_EQ)
    IN  Let(IF MatchAt(h, NAME_EQ, p1) THEN NameEnd(h, n0) ELSE -1, LAMBDA nq :
            IF nq = -1 THEN [name |-> None, next |-> p1]
            ELSE [name |-> SubSeq(h, n0 + 1, nq), next |-> nq + 1])

\* (?P<filename>[^"]*)"? at offset p6, after the groups enc and lang
disposition_tail(h, enc, lang, p6) ==
    Let(FindFrom(h, <<"\"">>, p6), LAMBDA fq :
        [enc |-> enc, lang |-> lang,
         filename |-> SubSeq(h, p6 + 1, IF fq < 0 THEN Len(h) ELSE fq)])

\* (?:; filename\*?="?(?:(?P<enc>.+?)'(?P<lang>\w*)')?(?P<filename>[^"]*)"?)? at offset p2
disposition_filename(h, p2) ==
    LET p3 == p2 + Len(FILENAME)
        p3s == IF MatchAt(h, <<"*">>, p3) THEN p3 + 1 ELSE p3
        p4 == p3s + 1
    IN  IF ~(MatchAt(h, FILENAME, p2) /\ MatchAt(h, <<"=">>, p3s))
        THEN [enc |-> None, lang |-> None, filename |-> None]
        ELSE Let(IF MatchAt(h, <<"\"">>, p4) THEN p4 + 1 ELSE p4, LAMBDA p5 :
             Let(EncEnd(h, p5 + 1), LAMBDA eq :
                 IF eq = -1 THEN disposition_tail(h, None, None, p5)
                 ELSE Let(WordRunEnd(h, eq + 1), LAMBDA lq :
                          disposition_tail(h, SubSeq(h, p5 + 1, eq), SubSeq(h, eq + 2, lq),
                                           lq + 1))))

\* File.disposition_regex.search(header_str).groupdict(); matched is FALSE when search returns None
disposition_regex(h0) ==
    Let(h0, LAMBDA h :
    Let(Find(h, DISPOSITION), LAMBDA p0 :
        IF p0 < 0 THEN [matched |-> FALSE, name |-> None, enc |-> None,
                        lang |-> None, filename |-> None]
        ELSE Let(disposition_name(h, p0 + Len(DISPOSITION)), LAMBDA nm :
             Let(disposition_filename(h, nm.next), LAMBDA fl :
                 [matched |-> TRUE, name |-> nm.name, enc |-> fl.enc, lang |-> fl.lang,
                  filename |-> fl.filename]))))

\* File.mime_type_regex.search(header_str) group 1; None when no match
mime_type_regex(h0) ==
    Let(h0, LAMBDA h :
    Let(Find(h, CONTENT_TYPE), LAMBDA p :
        IF p < 0 THEN None
        ELSE Let(FindFrom(h, <<"\n">>, p + Len(CONTENT_TYPE)), LAMBDA nl :
                 SubSeq(h, p + Len(CONTENT_TYPE) + 1, IF nl < 0 THEN Len(h) ELSE nl))))

\* the codecs the filename charset may name
IsUtf8(enc) == lower(enc) \in {<<"u", "t", "f", "-", "8">>, <<"u", "t", "f", "8">>}

(* -------------------------- File.parse_headers ------------------------- *)
\* lines 148-158 of parse_headers: the fields of the Part from the two regexes
parse_fields(body0, body2, groups0, mth0) ==
    Let2(groups0, mth0, LAMBDA groups, mth :
        LET fn0 == groups.filename
            plain == fn0 = None \/ fn0 = <<>>
            fail(e) == [kind |-> "raise", err |-> e, body |-> body0,
                        name |-> None, filename |-> None, mimetype |-> None]
        IN  IF ~groups.matched THEN fail("AttributeError")
            ELSE IF groups.enc # None /\ fn0 = <<>> THEN fail("AttributeError")
            ELSE IF groups.enc # None /\ ~IsUtf8(groups.enc) THEN fail("LookupError")
            ELSE IF groups.name = None THEN fail("AttributeError")
            ELSE [kind |-> IF groups.name = <<>> THEN "raise" ELSE "ok",
                  err |-> IF groups.name = <<>> THEN "AssertionError" ELSE "",
                  body |-> body2,
                  name |-> decode(groups.name),
                  filename |-> IF plain THEN fn0
                               ELSE IF groups.enc = None THEN to_str(unquote(fn0))
                               ELSE to_str(utf8_decode(utf8_encode(unquote(fn0)), FALSE)),
                  mimetype |-> IF mth = None THEN None ELSE decode(mth)])

\* kind: "stop" (StopAsyncIteration), "raise" (err names the exception) or
\* "ok"; body is stream.body when parse_headers returns or raises
parse_headers(stream_body, tmp_boundary) ==
    Let(stream_body, LAMBDA body0 :
    Let(Find(body0, tmp_boundary), LAMBDA index :
        IF index = Find(body0, tmp_boundary \o DASHDASH)
          THEN [kind |-> "stop", err |-> "StopAsyncIteration", body |-> body0,
                name |-> None, filename |-> None, mimetype |-> None]
        ELSE Let(PyFrom(body0, index + Len(tmp_boundary)), LAMBDA body1 :
             Let(Find(body1, CRLFCRLF), LAMBDA t :
             Let(IF t < 0 THEN PyDropLast(body1, 1) ELSE PyTo(body1, t), LAMBDA header_str :
                 parse_fields(body0, PyFrom(body1, t + 4), disposition_regex(header_str),
                              mime_type_regex(header_str)))))))

(* ------------------------------- state --------------------------------- *)
VARIABLES
    headers,      \* request.headers: the Content-Type value, or None when absent
    wire,         \* the bytes the client sends, in order
    parts,        \* what the client encoded into wire, part by part
    first,        \* size of the first chunk request.stream delivers
    chunk,        \* size of every later chunk
    mode,         \* how the consumer drives the decoder
    rsize,        \* the size a "read" consumer passes to File.read
    src,          \* request.stream: bytes delivered, receive() calls
    stream,       \* the FileStream object
    files,        \* the File objects returned so far, in order
    last,         \* the most recent operation and its result
    hist          \* what the session has shown so far (ended: end-of-parts was signalled)

vars == <<headers, wire, parts, first, chunk, mode, rsize, src, stream, files, last, hist>>

(* --------------------------- request.stream ---------------------------- *)
\* await request.stream.get(): the next chunk, or <<>> for the end-of-input
\* message (also the answer to any call made after it)
receive(s) ==
    LET size == IF s.pos = 0 THEN first ELSE chunk
    IN  SubSeq(wire, s.pos + 1, Min(s.pos + size, Len(wire)))

\* io = [body, closed: the FileStream fields; pos, nrecv: bytes and calls so far;
\* lastlen: size of the last chunk of data; late: receive() was called on a closed stream]
\* File.get_message
get_message(io0) ==
    Let2(io0, receive(io0), LAMBDA io, message :
        [body |-> io.body \o message,
         closed |-> io.closed \/ message = <<>>,
         pos |-> io.pos + Len(message),
         nrecv |-> io.nrecv + 1,
         lastlen |-> IF message = <<>> THEN io.lastlen ELSE Len(message),
         late |-> io.late \/ io.closed])

IO == [body |-> stream.body, closed |-> stream.closed, pos |-> src.pos,
       nrecv |-> src.nrecv, lastlen |-> src.lastlen, late |-> src.late]

SrcOf(io) == [pos |-> io.pos, nrecv |-> io.nrecv, lastlen |-> io.lastlen, late |-> io.late]

(* ------------------------- FileStream.__init__ ------------------------- *)
\* a constructor that takes the boundary without looking at the media type
FileStream_init_any(hdrs) ==
    Let(parse_header(IF hdrs = None THEN OCTET ELSE hdrs), LAMBDA parsed :
    Let(param_get(parsed.params, BOUNDARY_KEY), LAMBDA b :
        [state |-> "ok", boundary |-> IF b = None THEN <<>> ELSE b, body |-> <<>>,
         closed |-> FALSE]))

\* the outcome of the constructor: state "ok", or the exception it raises
FileStream_init(hdrs) ==
    Let(parse_header(IF hdrs = None THEN OCTET ELSE hdrs), LAMBDA parsed :
    Let(param_get(parsed.params, BOUNDARY_KEY), LAMBDA b :
        IF parsed.key # MULTIPART
          THEN [state |-> "ValueError", boundary |-> <<>>, body |-> <<>>, closed |-> FALSE]
        ELSE IF b = None
          THEN [state |-> "KeyError", boundary |-> <<>>, body |-> <<>>, closed |-> FALSE]
        ELSE [state |-> "ok", boundary |-> b, body |-> <<>>, closed |-> FALSE]))

(* ---------------------------- File.__init__ ---------------------------- *)
tmpboundary(boundary) == CRLF \o DASHDASH \o boundary
\* the length of the marker of from_boundary, without its CRLF
boundary_len_short(boundary) == Len(DASHDASH \o boundary)
boundary_len(boundary) == Len(tmpboundary(boundary))

\* buffer is the local variable of read (line 120) in the most recent call;
\* got, cgot and reads record what the object has handed out: every yield of
\* body_iter, the yields of decoded content (lines 92 and 104), the results of read
File_init(name, filename, mimetype) ==
    [name |-> name, filename |-> filename, mimetype |-> mimetype,
     last |-> <<>>, size |-> 0, pc |-> "start", buffer |-> <<>>,
     got |-> <<>>, cgot |-> <<>>, reads |-> <<>>, stopped |-> FALSE, rdone |-> FALSE]

(* ------------------------- File._iter_content -------------------------- *)
Step(f, io, kind, value) == [f |-> f, io |-> io, kind |-> kind, value |-> value]

\* iter_loop without the withheld window: what is not a marker yet is content
iter_loop_naive(f0, io0) ==
    Let3(f0, io0, Find(io0.body, tmpboundary(stream.boundary)), LAMBDA f, io, index :
        IF f.last # <<>>
          THEN Step([f EXCEPT !.pc = "y83", !.got = @ \o f.last], io, "yield", f.last)
        ELSE IF index # -1
          THEN LET read == PyTo(io.body, index)
               IN  Step([f EXCEPT !.pc = "y92", !.size = @ + Len(read),
                                  !.got = @ \o read, !.cgot = @ \o read],
                        [io EXCEPT !.body = PyFrom(io.body, index)], "yield", read)
        ELSE IF io.closed
          THEN Step([f EXCEPT !.pc = "raised"], io, "raise", <<>>)
        ELSE Step([f EXCEPT !.pc = "y104", !.size = @ + Len(io.body),
                            !.got = @ \o io.body, !.cgot = @ \o io.body],
                  [io EXCEPT !.body = <<>>], "yield", io.body))

\* iter_loop giving the marker away with the content before it
iter_loop_eat(f0, io0) ==
    Let3(f0, io0, Find(io0.body, tmpboundary(stream.boundary)), LAMBDA f, io, index :
        IF f.last = <<>> /\ index # -1
          THEN LET read == PyTo(io.body, index + boundary_len(stream.boundary))
               IN  Step([f EXCEPT !.pc = "y92", !.size = @ + Len(read),
                                  !.got = @ \o read, !.cgot = @ \o read],
                        [io EXCEPT !.body = PyFrom(io.body, Len(read))], "yield", read)
          ELSE iter_loop_naive(f, io))

\* one pass of the while loop, from its top to the next yield or raise
iter_loop(f0, io0) ==
    Let3(f0, io0, Find(io0.body, tmpboundary(stream.boundary)), LAMBDA f, io, index :
        IF f.last # <<>>
          THEN Step([f EXCEPT !.pc = "y83", !.got = @ \o f.last], io, "yield", f.last)
        ELSE IF index # -1
          THEN LET read == PyTo(io.body, index)
               IN  Step([f EXCEPT !.pc = "y92", !.size = @ + Len(read),
                                  !.got = @ \o read, !.cgot = @ \o read],
                        [io EXCEPT !.body = PyFrom(io.body, index)], "yield", read)
        ELSE IF io.closed
          THEN Step([f EXCEPT !.pc = "raised"], io, "raise", <<>>)
        ELSE LET read == PyDropLast(io.body, boundary_len(stream.boundary))
             IN  Step([f EXCEPT !.pc = "y104", !.size = @ + Len(read),
                                !.got = @ \o read, !.cgot = @ \o read],
                      [io EXCEPT !.body = PyLast(io.body, boundary_len(stream.boundary))],
                      "yield", read))

\* body_iter.asend(None): resume the generator where it is suspended
_iter_content(f0, io0) ==
    Let2(f0, io0, LAMBDA f, io :
    CASE f.pc \in {"start", "y83"} -> iter_loop(f, io)
      [] f.pc = "y104" -> Let(get_message(io), LAMBDA io1 : iter_loop(f, io1))
      [] f.pc = "y92" ->
            IF f.last # <<>>
            THEN Step([f EXCEPT !.pc = "y94", !.got = @ \o f.last], io, "yield", f.last)
            ELSE Step([f EXCEPT !.pc = "done"], io, "stop", <<>>)
      [] f.pc = "y94" -> Step([f EXCEPT !.pc = "done"], io, "stop", <<>>)
      [] OTHER -> Step(f, io, "stop", <<>>))

(* ------------------------------ File.read ------------------------------ *)
\* the while loop of read, with the bytes collected so far
RECURSIVE read_loop(_, _, _, _)
read_loop(f0, io0, read0, size) ==
    Let3(f0, io0, read0, LAMBDA f, io, read :
        IF Len(read) >= size THEN Step(f, io, "return", read)
        ELSE Let(_iter_content(f, io), LAMBDA r :
                 IF r.kind = "stop" THEN Step(r.f, r.io, "return", read)
                 ELSE IF r.kind = "raise" THEN r
                 ELSE Let(read \o r.value, LAMBDA all :
                          read_loop([r.f EXCEPT !.last = PyFrom(all, size),
                                                !.buffer = r.value], r.io,
                                    PyTo(all, size), size))))

\* read collecting one byte too many
read_over(f, io, size) ==
    IF size > 0 THEN read_loop([f EXCEPT !.buffer = <<>>], io, <<>>, size + 1)
    ELSE Step(f, io, "assert", <<>>)

\* read without its assertion
read_unchecked(f, io, size) == read_loop([f EXCEPT !.buffer = <<>>], io, <<>>, size)

\* the default of the parameter size of File.read
DEFAULT_SIZE == 10240

\* File.read(size); kind "assert" is the AssertionError of line 116
read(f, io, size) ==
    IF size > 0 THEN read_loop([f EXCEPT !.buffer = <<>>], io, <<>>, size)
    ELSE Step(f, io, "assert", <<>>)

(* -------------------------- File.from_boundary ------------------------- *)
\* the test that ends the receive loop of from_boundary (lines 132-134);
\* FileStream.__anext__ passes the boundary of the stream
from_boundary_break(io) ==
    (Contains(io.body, CRLFCRLF) /\ Contains(io.body, DASHDASH \o stream.boundary))
    \/ io.closed

\* the passes of the loop that follow a pass that did not break, at most k
\* of them; the k passes are split in two halves to keep the evaluation shallow
RECURSIVE from_boundary_passes(_, _)
from_boundary_passes(io, k) ==
    IF from_boundary_break(io) THEN io
    ELSE IF k <= 1 THEN get_message(io)
    ELSE Let(from_boundary_passes(io, k \div 2), LAMBDA io1 :
             from_boundary_passes(io1, k - (k \div 2)))

\* the receive loop of from_boundary: a first pass unless the stream is
\* closed, then passes until the test breaks (every pass takes a byte of the
\* wire or closes the stream, so Len(wire) + 1 passes end the loop)
from_boundary_loop(io) ==
    IF io.closed THEN io
    ELSE Let(get_message(io), LAMBDA io1 : from_boundary_passes(io1, Len(wire) + 1))

\* File.from_boundary(stream, receive, boundary): the io after the call and
\* the result of parse_headers
from_boundary(io, boundary) ==
    Let(from_boundary_loop(io), LAMBDA io1 :
    Let(parse_headers(io1.body, DASHDASH \o boundary), LAMBDA r :
        [io |-> [io1 EXCEPT !.body = r.body], r |-> r]))

(* ------------------------- the client's requests ----------------------- *)
Boundary == <<"b", "x">>
HdrGood == MULTIPART \o <<";", " ">> \o BOUNDARY_KEY \o <<"=">> \o Boundary
HdrQuoted == MULTIPART \o <<";", " ", "B", "o", "u", "n", "d", "a", "r", "y", "=", "\"">>
             \o Boundary \o <<"\"">>
HdrJson == <<"a", "p", "p", "l", "i", "c", "a", "t", "i", "o", "n", "/", "j", "s", "o", "n">>
HdrNoBoundary == MULTIPART
HdrCase == <<"M", "u", "l", "t", "i", "p", "a", "r", "t", "/", "F", "o", "r", "m", "-", "D", "a", "t", "a">>
           \o <<";", " ">> \o BOUNDARY_KEY \o <<"=">> \o Boundary
HdrMixed == <<"m", "u", "l", "t", "i", "p", "a", "r", "t", "/", "m", "i", "x", "e", "d">>
            \o <<";", " ">> \o BOUNDARY_KEY \o <<"=">> \o Boundary
GoodHeaders == {HdrGood, HdrQuoted}
BadHeaders == {None, HdrJson, HdrNoBoundary, HdrCase, HdrMixed}

\* a part as the client means it: fnwire is the filename as written in the
\* header, form says how ("none", "quoted": filename="..", "star": filename*=UTF-8''..)
MkPart(name, form, fnwire, filename, mimetype, content) ==
    [name |-> name, form |-> form, fnwire |-> fnwire, filename |-> filename,
     mimetype |-> mimetype, content |-> content]

TextPlain == <<"t", "/", "p">>
StarWire == <<"%", "e", "4", "%", "b", "d", "%", "a", "0", ".", "t", "x", "t">>
StarName == <<"U+20320", ".", "t", "x", "t">>
PField == MkPart(<<"f">>, "none", None, None, None, <<"h", "e", "l", "l", "o">>)
PFile == MkPart(<<"u">>, "quoted", <<"a", ".", "t", "x", "t">>, <<"a", ".", "t", "x", "t">>,
                TextPlain, <<"h", "e", "l", "l", "o", " ", "w", "o", "r", "l", "d">>)
PStarLast == MkPart(<<"s">>, "star", StarWire, StarName, None, <<>>)
PTricky == MkPart(<<"t">>, "none", None, None, None,
                  <<"x", "\r", "\n", "-", "-", "y", "\r", "\n", "\r", "\n", "-">>)
PStar == MkPart(<<"v">>, "star", StarWire, StarName, TextPlain, <<"\r", "\n">>)
Menu == <<PField, PFile, PStarLast, PTricky, PStar>>
\* a plain field one byte longer than the default read size
PLong == MkPart(<<"g">>, "none", None, None, None, [i \in 1..(DEFAULT_SIZE + 1) |-> "a"])

\* the header block and body of one part on the wire
EncodePart(p) ==
    DASHDASH \o Boundary \o CRLF
    \o DISPOSITION \o NAME_EQ \o p.name \o <<"\"">>
    \o (CASE p.form = "quoted" -> FILENAME \o <<"=", "\"">> \o p.fnwire \o <<"\"">>
          [] p.form = "star" -> FILENAME \o <<"*", "=">> \o UTF8 \o <<"'", "'">> \o p.fnwire
          [] OTHER -> <<>>)
    \o (IF p.mimetype = None THEN <<>> ELSE CRLF \o CONTENT_TYPE \o p.mimetype)
    \o CRLFCRLF \o p.content \o CRLF

RECURSIVE EncodeParts(_)
EncodeParts(ps) == IF ps = <<>> THEN <<>> ELSE EncodePart(Head(ps)) \o EncodeParts(Tail(ps))

\* a well-formed body: the parts, then the terminal boundary
Encode(ps) == EncodeParts(ps) \o DASHDASH \o Boundary \o DASHDASH \o CRLF

\* m consecutive parts of the menu, starting at entry a
PartSeq(a, m) == [i \in 1..m |-> Menu[((a + i - 2) % Len(Menu)) + 1]]
PartSeqs == {<<>>} \cup {PartSeq(a, m) : a \in 1..Len(Menu), m \in 1..MaxParts}

\* chunkings: a first chunk of f bytes, then chunks of c bytes
Uniform == {<<f, c>> : f \in 1..MaxChunk, c \in 1..MaxChunk} \ {fc \in (1..MaxChunk) \X (1..MaxChunk) : fc[1] > fc[2]}
Whole(n) == {<<Max(n, 1), Max(n, 1)>>}
SingleCuts(n) == {<<f, Max(n, 1)>> : f \in 1..Max(n, 1)}
TailCuts(n) == {<<Max(n - k, 1), Max(n, 1)>> : k \in 1..MaxChunk}

ReadSizes == {1, 4}
FreeSizes == {-1, 0, 2, 4}
Drivers == {<<"iter", 0>>} \cup {<<"read", z>> : z \in ReadSizes}

Scenario(h, w, ps, fc, drv) ==
    /\ headers = h
    /\ wire = w
    /\ parts = ps
    /\ first = fc[1]
    /\ chunk = fc[2]
    /\ mode = drv[1]
    /\ rsize = drv[2]

\* the chunkings of a complete body of n bytes and m parts: the uniform ones,
\* the body in one chunk, every cut in two of a short body, and the cuts in
\* two that leave a few last bytes of a longer one
Chunkings(n, m) ==
    Uniform \cup Whole(n) \cup (IF m <= 1 THEN SingleCuts(n) ELSE TailCuts(n))

\* complete bodies, draining consumers
WellFormed ==
    \E ps \in PartSeqs : \E w \in {Encode(ps)} :
    \E fc \in Chunkings(Len(w), Len(ps)) : \E drv \in Drivers :
        Scenario(HdrGood, w, ps, fc, drv)

\* bodies cut short, and bodies without any boundary
Truncated ==
    \/ \E w \in {Encode(<<PField, PFile>>)} : \E cut \in 0..(Len(w) - 1) :
       \E fc \in {<<1, MaxChunk>>} \cup Whole(cut) : \E drv \in Drivers :
          Scenario(HdrGood, SubSeq(w, 1, cut), <<PField, PFile>>, fc, drv)
    \/ \E fc \in Uniform : \E drv \in Drivers :
          Scenario(HdrGood, <<"x", "y", "z">>, <<>>, fc, drv)

\* a consumer that calls the operations in any order
Free ==
    \/ \E ps \in {<<PField, PFile>>, <<PFile>>} : \E fc \in Uniform \cup Whole(Len(Encode(ps))) :
          Scenario(HdrGood, Encode(ps), ps, fc, <<"free", 0>>)
    \/ \E ps \in {<<PTricky>>} : \E fc \in TailCuts(Len(Encode(ps))) :
          Scenario(HdrGood, Encode(ps), ps, fc, <<"free", 0>>)

\* the upload handler of views.py on complete bodies, short and long fields
Upload ==
    \/ \E ps \in {<<PField, PFile>>, <<PFile, PTricky>>, <<PStarLast, PField>>} :
       \E w \in {Encode(ps)} : \E fc \in Uniform \cup Whole(Len(w)) :
          Scenario(HdrGood, w, ps, fc, <<"upload", DEFAULT_SIZE>>)
    \/ \E ps \in {<<PLong, PField>>} : \E w \in {Encode(ps)} :
       \E fc \in Whole(Len(w)) \cup {<<DEFAULT_SIZE, DEFAULT_SIZE>>} :
          Scenario(HdrGood, w, ps, fc, <<"upload", DEFAULT_SIZE>>)

\* every Content-Type header
AnyHeader ==
    \E h \in (GoodHeaders \cup BadHeaders) \ {HdrGood} : \E fc \in Whole(Len(Encode(<<PField>>))) \cup {<<3, 3>>} :
        Scenario(h, Encode(<<PField>>), <<PField>>, fc, <<"iter", 0>>)

NoOp == [op |-> "none", file |-> 0, size |-> 0, kind |-> "", value |-> <<>>, err |-> "",
         pc0 |-> "", nrecv0 |-> 0]

Init ==
    /\ WellFormed \/ Truncated \/ Free \/ AnyHeader \/ Upload
    /\ src = [pos |-> 0, nrecv |-> 0, lastlen |-> 0, late |-> FALSE]
    /\ stream = [state |-> "new", boundary |-> <<>>, body |-> <<>>, closed |-> FALSE]
    /\ files = <<>>
    /\ last = NoOp
    /\ hist = [status |-> "running", ops |-> 0, ended |-> FALSE]

(* ------------------------------ operations ----------------------------- *)
Frame == UNCHANGED <<headers, wire, parts, first, chunk, mode, rsize>>

\* stream = FileStream(request)
Construct ==
    /\ stream.state = "new"
    /\ stream' = FileStream_init(headers)
    /\ last' = [NoOp EXCEPT !.op = "construct",
                            !.kind = IF stream'.state = "ok" THEN "ok" ELSE "raise",
                            !.err = IF stream'.state = "ok" THEN "" ELSE stream'.state]
    /\ hist' = [hist EXCEPT !.status = IF stream'.state = "ok" THEN "running" ELSE "error"]
    /\ UNCHANGED <<src, files>>
    /\ Frame

\* may the consumer act: a draining consumer stops at end-of-parts and at the
\* first exception, a free one after MaxOps calls
Active ==
    /\ stream.state = "ok"
    /\ IF mode = "free" THEN hist.ops < MaxOps ELSE hist.status = "running"

\* a draining consumer asks for the next part only when the current one is drained
\* "if file.filename:" of the upload handler
HasFilename(f) == f.filename # None /\ f.filename # <<>>

\* the upload handler asks for the next part when "async for chuck in file"
\* has ended, or when its one "await file.read()" has returned
MayNext ==
    IF mode = "free" \/ files = <<>> THEN TRUE
    ELSE IF mode = "iter" THEN files[Len(files)].stopped
    ELSE IF mode = "upload"
      THEN IF HasFilename(files[Len(files)]) THEN files[Len(files)].stopped
           ELSE last.op = "read"
    ELSE files[Len(files)].rdone

\* await stream.__anext__()
NextPart ==
    /\ Active
    /\ MayNext
    /\ \E res \in {from_boundary(IO, stream.boundary)} :
       LET r == res.r
       IN  /\ stream' = [stream EXCEPT !.body = res.io.body, !.closed = res.io.closed]
           /\ src' = SrcOf(res.io)
           /\ files' = IF r.kind = "ok"
                       THEN Append(files, File_init(r.name, r.filename, r.mimetype))
                       ELSE files
           /\ last' = [NoOp EXCEPT !.op = "next", !.file = Len(files'), !.kind = r.kind,
                                   !.err = r.err, !.nrecv0 = src.nrecv]
           /\ hist' = [status |-> CASE r.kind = "ok" -> hist.status
                                    [] r.kind = "stop" -> "end"
                                    [] OTHER -> "error",
                       ops |-> hist.ops + 1,
                       ended |-> hist.ended \/ r.kind = "stop"]
    /\ Frame

\* the result of an operation on files[i], written back
Settle(i, op, size, r) ==
    /\ stream' = [stream EXCEPT !.body = r.io.body, !.closed = r.io.closed]
    /\ src' = SrcOf(r.io)
    /\ files' = [files EXCEPT ![i] =
                    [r.f EXCEPT !.stopped = @ \/ (op = "pull" /\ r.kind = "stop"),
                                !.rdone = @ \/ (op = "read" /\ r.kind = "return" /\ r.value = <<>>),
                                !.reads = IF op = "read" THEN @ \o r.value ELSE @]]
    /\ last' = [op |-> op, file |-> i, size |-> size, kind |-> r.kind, value |-> r.value,
                err |-> CASE r.kind = "raise" -> "RuntimeError"
                          [] r.kind = "assert" -> "AssertionError"
                          [] OTHER -> "",
                pc0 |-> files[i].pc, nrecv0 |-> src.nrecv]
    /\ hist' = [status |-> IF r.kind \in {"raise", "assert"} THEN "error" ELSE hist.status,
                ops |-> hist.ops + 1,
                ended |-> hist.ended]

\* one step of "async for chunk in file"
Pull(i) ==
    /\ Active
    /\ \/ mode = "free"
       \/ mode = "iter" /\ i = Len(files) /\ ~files[i].stopped
       \/ mode = "upload" /\ i = Len(files) /\ HasFilename(files[i]) /\ ~files[i].stopped
    /\ \E r \in {_iter_content(files[i], IO)} : Settle(i, "pull", 0, r)
    /\ Frame

\* await file.read(size)
Read(i, size) ==
    /\ Active
    /\ \/ mode = "free" /\ size \in FreeSizes
       \/ mode = "read" /\ i = Len(files) /\ ~files[i].rdone /\ size = rsize
       \/ mode = "upload" /\ i = Len(files) /\ ~HasFilename(files[i]) /\ last.op = "next"
          /\ size = DEFAULT_SIZE
    /\ \E r \in {read(files[i], IO, size)} : Settle(i, "read", size, r)
    /\ Frame

Next ==
    \/ Construct
    \/ NextPart
    \/ \E i \in 1..Len(files) : Pull(i)
    \/ \E i \in 1..Len(files) : \E size \in ReadSizes \cup FreeSizes \cup {DEFAULT_SIZE} : Read(i, size)

Spec == Init /\ [][Next]_vars

(* ------------------------------ properties ----------------------------- *)
Draining == mode \in {"iter", "read"}
Complete == headers \in GoodHeaders /\ wire = Encode(parts)
TerminalBoundary == DASHDASH \o Boundary \o DASHDASH
Marker == tmpboundary(Boundary)
Finished(f) == f.pc \in {"y92", "y94", "done"}

\* offset in the wire of the first content byte of part j
ContentStart(j) ==
    Len(EncodeParts(SubSeq(parts, 1, j))) - Len(parts[j].content) - Len(CRLF)

\* C1: on a complete body drained by raw iteration, under every chunking, the
\* chunks a part yields concatenate to a prefix of that part's content and,
\* once its sequence has ended, to exactly its content; no part fails and
\* at end-of-parts every part has been handed out and drained.
C1_IterationYieldsContent ==
    (mode = "iter" /\ Complete) =>
        /\ hist.status # "error"
        /\ Len(files) <= Len(parts)
        /\ \A j \in 1..Len(files) :
              /\ IsPrefix(files[j].got, parts[j].content)
              /\ files[j].stopped => files[j].got = parts[j].content
        /\ hist.status = "end" =>
              /\ Len(files) = Len(parts)
              /\ \A j \in 1..Len(files) : files[j].stopped

\* two parts delivered one byte per chunk, both drained to the end
C1_Witness ==
    /\ mode = "iter" /\ Complete /\ first = 1 /\ chunk = 1
    /\ hist.status = "end"
    /\ Len(files) = 2
    /\ files[2].got = parts[2].content /\ parts[2].content # <<>>

\* C2: a part drained by read(size) calls until the empty result gives back
\* exactly the part's content.
C2_ReadsGiveContent ==
    (mode = "read" /\ Complete) =>
        \A j \in 1..Len(files) : files[j].rdone => files[j].reads = parts[j].content

\* C3: a draining consumer of a complete body gets the parts in wire order with
\* the name, filename and media type of the wire part, and then a clean
\* end-of-parts after exactly N parts.
C3_PartsInOrder ==
    (Draining /\ Complete) =>
        /\ Len(files) <= Len(parts)
        /\ \A j \in 1..Len(files) :
              /\ files[j].name = parts[j].name
              /\ files[j].filename = parts[j].filename
              /\ files[j].mimetype = parts[j].mimetype
        /\ ~(last.op = "next" /\ last.kind = "raise")
        /\ hist.status = "end" => Len(files) = Len(parts)

\* C4: when the input has no terminal boundary a draining consumer never sees
\* a clean end-of-parts, and the error that ends the session is the
\* incomplete-content error.
C4_TruncatedNeverEndsCleanly ==
    (Draining /\ stream.state = "ok" /\ ~Contains(wire, TerminalBoundary)) =>
        /\ hist.status # "end"
        /\ hist.status = "error" => last.err = "RuntimeError"

\* C5: at most one Part is unfinished at any time: no Part is returned while an
\* earlier one has not reached its terminating boundary.
C5_OneActivePart ==
    Cardinality({j \in 1..Len(files) : ~Finished(files[j])}) <= 1

\* C6: for a draining consumer of a complete body, when a header scan has
\* returned a Part or a body step has yielded, the buffer holds at most
\* boundary-length bytes plus the bytes of the most recent chunk.
C6_BufferBound ==
    (Draining /\ Complete /\ ( (last.op = "next" /\ last.kind = "ok")
                  \/ (last.op = "pull" /\ last.kind = "yield") )) =>
        Len(stream.body) <= boundary_len(stream.boundary) + src.lastlen

\* C7: a request whose Content-Type is absent, not multipart/form-data or
\* without a boundary makes the constructor fail, and no chunk is received.
C7_BadContentTypeFails ==
    (headers \in BadHeaders /\ stream.state # "new") =>
        /\ stream.state \in {"ValueError", "KeyError"}
        /\ hist.status = "error"
        /\ src.nrecv = 0 /\ src.pos = 0 /\ files = <<>>

\* the constructor has failed on a multipart/form-data header without boundary
C7_Witness ==
    /\ headers = HdrNoBoundary
    /\ last.op = "construct" /\ last.err = "KeyError"
    /\ src.nrecv = 0

\* C8: read(max_size) with max_size > 0 returns at most max_size bytes, fewer
\* only when the body sequence is exhausted by the end of the call, and nothing
\* once the sequence was exhausted before the call.
C8_ReadBounded ==
    (last.op = "read" /\ last.kind = "return") =>
        /\ Len(last.value) <= last.size
        /\ Len(last.value) < last.size => files[last.file].pc \in {"done", "raised"}
        /\ last.pc0 \in {"done", "raised"} => last.value = <<>>

\* a read that came back short because the part ended during the call
C8_Witness ==
    /\ last.op = "read" /\ last.kind = "return"
    /\ last.value # <<>> /\ Len(last.value) < last.size
    /\ last.pc0 \notin {"done", "raised"}

\* C9: read(size) with size <= 0 raises the assertion error and changes
\* nothing: no receive() call, same buffer, closed flag, surplus and position
\* of the body sequence.
C9_BadSizeChangesNothing ==
    [][(hist'.ops # hist.ops /\ last'.op = "read" /\ last'.size <= 0) =>
          /\ last'.kind = "assert" /\ last'.err = "AssertionError"
          /\ stream' = stream /\ src' = src /\ files' = files]_vars

\* read(0) or read(-1) was refused on a part that holds a surplus
C9_Witness ==
    /\ last.op = "read" /\ last.size <= 0 /\ last.kind = "assert"
    /\ files[last.file].last # <<>>
    /\ files[last.file].pc \notin {"start", "done"}

\* C10: for a draining consumer, also on truncated input, the content a part
\* has yielded is a prefix of the part's true content, followed in the wire by
\* the buffer; a step that has not found the marker leaves exactly the last
\* boundary-length bytes in the buffer (everything, when it had fewer).
C10_WindowWithheld ==
    Draining =>
        \A j \in 1..Len(files) :
            (j <= Len(parts) /\ files[j].pc \in {"y92", "y104"}) =>
                /\ IsPrefix(files[j].cgot, parts[j].content)
                /\ (j = Len(files) /\ last.op = "pull" /\ files[j].pc = "y104") =>
                      /\ files[j].cgot \o stream.body
                            = SubSeq(wire, ContentStart(j) + 1, src.pos)
                      /\ Len(stream.body) = Min(Len(Marker), src.pos - ContentStart(j))

\* a step has yielded content while the buffer ends inside a marker
C10_Witness ==
    /\ mode = "iter" /\ files # <<>>
    /\ files[Len(files)].pc = "y104" /\ files[Len(files)].cgot # <<>>
    /\ src.pos >= 3
    /\ SubSeq(wire, src.pos - 2, src.pos + 3) = Marker

\* C11: the step of a part's body sequence that finds the marker hands out
\* exactly the bytes before it and leaves the buffer beginning with the marker
\* and holding everything after it; the step that ends the sequence makes no
\* receive() call and changes neither buffer nor closed flag, and for a
\* draining consumer the buffer begins with the marker when the sequence ends.
C11_FinishLeavesMarker ==
    [][\A i \in 1..Len(files) :
          (hist'.ops # hist.ops /\ last'.op \in {"pull", "read"} /\ last'.file = i) =>
             /\ (~Finished(files[i]) /\ Finished(files'[i])) =>
                   /\ IsPrefix(tmpboundary(stream.boundary), stream'.body)
                   /\ files'[i].cgot \o stream'.body
                         = files[i].cgot \o stream.body \o SubSeq(wire, src.pos + 1, src'.pos)
             /\ (last'.op = "pull" /\ last'.kind = "stop") =>
                   /\ src' = src /\ stream' = stream
                   /\ (Draining /\ files[i].pc \in {"y92", "y94"}) =>
                         IsPrefix(tmpboundary(stream.boundary), stream.body)]_vars

\* a pull resumed after a yield without marker has received a chunk, found the
\* marker and left it at the head of the buffer
C11_Witness ==
    /\ last.op = "pull" /\ last.pc0 = "y104" /\ last.kind = "yield"
    /\ files[last.file].pc = "y92" /\ last.value # <<>>
    /\ src.nrecv > last.nrecv0
    /\ IsPrefix(Marker, stream.body) /\ Len(stream.body) > Len(Marker)

\* the buffer a header scan parses: closed, and without a boundary marker
\* that is followed by a header terminator or is the terminal one
ScanIncomplete(io) ==
    Let2(io.body, DASHDASH \o stream.boundary, LAMBDA b, tmp_boundary :
        Let(Find(b, tmp_boundary), LAMBDA i :
            /\ io.closed
            /\ \/ i = -1
               \/ /\ ~MatchAt(b, tmp_boundary \o DASHDASH, i)
                  /\ FindFrom(b, CRLFCRLF, i) = -1))

\* C12: a header scan that parses a closed buffer without a boundary marker
\* followed by a header terminator (the marker not being the terminal one)
\* fails with the incomplete-content error: no end-of-parts, no Part, no
\* other error.
C12_ClosedScanFailsIncomplete ==
    [][(hist'.ops # hist.ops /\ last'.op = "next" /\ stream.state = "ok"
        /\ ScanIncomplete(from_boundary_loop(IO))) =>
          (last'.kind = "raise" /\ last'.err = "RuntimeError")]_vars

\* the buffer holds a boundary marker that is the terminal one or is followed
\* by a header terminator: a header scan needs no further chunk
ScanReady(b0) ==
    Let2(b0, DASHDASH \o stream.boundary, LAMBDA b, tmp_boundary :
        Let(Find(b, tmp_boundary), LAMBDA i :
            /\ i # -1
            /\ \/ MatchAt(b, tmp_boundary \o DASHDASH, i)
               \/ FindFrom(b, CRLFCRLF, i) # -1))

\* C13: a header scan calls receive() only while the buffer is open and lacks
\* the marker or the header terminator: on a closed buffer, and on a buffer
\* that already holds the next boundary with its header block or the terminal
\* boundary, the scan makes no receive() call.
C13_ScanReceivesOnlyWhenNeeded ==
    [][(hist'.ops # hist.ops /\ last'.op = "next" /\ stream.state = "ok"
        /\ (stream.closed \/ ScanReady(stream.body))) =>
          src'.nrecv = src.nrecv]_vars

\* r is a boundary marker (with or without the CRLF before it) followed by
\* one header block, up to and including its terminator
MarkerAndHeader(r0) ==
    Let2(r0, Find(r0, DASHDASH \o stream.boundary), LAMBDA r, i :
        /\ i \in {0, 2}
        /\ PyTo(r, i) = PyTo(CRLF, i)
        /\ FindFrom(r, CRLFCRLF, i) = Len(r) - Len(CRLFCRLF))

\* C14: on a complete body, a header scan that returns a Part takes from the head of the buffer
\* (with the bytes it received appended) exactly one boundary marker and one
\* header block and leaves the rest; a body step or read leaves the content
\* handed out so far followed by the buffer equal to what it was, with the
\* bytes received appended; a scan that returns no Part removes nothing.
C14_OnlyClassifiedBytesLeave ==
    [][(Complete /\ hist'.ops # hist.ops) =>
          LET all == stream.body \o SubSeq(wire, src.pos + 1, src'.pos)
              n == Len(all) - Len(stream'.body)
          IN  /\ (last'.op = "next" /\ last'.kind = "ok") =>
                    /\ n >= 0
                    /\ stream'.body = PyFrom(all, n)
                    /\ MarkerAndHeader(PyTo(all, n))
              /\ (last'.op = "next" /\ last'.kind # "ok") => stream'.body = all
              /\ last'.op \in {"pull", "read"} =>
                    files'[last'.file].cgot \o stream'.body = files[last'.file].cgot \o all]_vars

\* C15: in the upload handler, on a complete body, every part handed out
\* before a next-part request is exhausted at that request, and the handler
\* has got its whole content: a file part by raw iteration, a plain field by
\* its one read().
C15_UploadFinishesParts ==
    (mode = "upload" /\ Complete /\ last.op = "next") =>
        \A j \in 1..Len(files) :
            (j < Len(files) \/ last.kind # "ok") =>
                /\ files[j].pc = "done"
                /\ j <= Len(parts) =>
                      (IF HasFilename(files[j]) THEN files[j].got ELSE files[j].reads)
                         = parts[j].content

\* C16: when read(max_size) has returned, the surplus it retains is no longer
\* than the last chunk the call obtained from the body sequence (empty when
\* it obtained none), and it is empty when the call returned fewer than
\* max_size bytes.
C16_SurplusMinimal ==
    (last.op = "read" /\ last.kind = "return") =>
        /\ Len(files[last.file].last) <= Len(files[last.file].buffer)
        /\ Len(last.value) < last.size => files[last.file].last = <<>>

\* what the next result of the body sequence of files[i] depends on
SequenceState(i) ==
    <<files[i].pc, files[i].last, stream.body, stream.closed, src.pos, src.nrecv>>

\* C17: a part's body sequence is finite, also after read() calls that left a
\* surplus: no pull yields a chunk and leaves the position of the sequence,
\* the surplus, the buffer, the closed flag and the chunk source as they
\* were (the next pull would do the same, and so on without end).
C17_SequenceFinite ==
    [][\A i \in 1..Len(files) :
          (hist'.ops # hist.ops /\ last'.op = "pull" /\ last'.file = i
           /\ last'.kind = "yield") =>
             SequenceState(i)' # SequenceState(i)]_vars

\* C18: once the chunk source has reported end-of-input no operation calls
\* receive() again, and the closed flag stays set.
C18_NoReceiveAfterClose ==
    [][/\ stream.closed => (src'.nrecv = src.nrecv /\ stream'.closed)
       /\ ~src'.late]_vars

\* C19: once a next-part request has signalled end-of-parts, every later
\* next-part request signals end-of-parts too, makes no receive() call,
\* leaves buffer and closed flag as they are and returns no Part.
C19_EndOfPartsSticky ==
    [][(hist.ended /\ hist'.ops # hist.ops /\ last'.op = "next") =>
          /\ last'.kind = "stop"
          /\ src'.nrecv = src.nrecv
          /\ stream' = stream
          /\ files' = files]_vars
====
